---- MODULE Spec2Model ----
(***************************************************************************)
(* Chunked live-stream transport of lens-spaces (client/lib/lens/stream.ts) *)
(*                                                                         *)
(* Producer side: StreamRecorder (capture -> upload queue -> manifest      *)
(* append -> finalize).  Consumer side: StreamPlayer (manifest poll ->     *)
(* segment fetch -> pending queue -> SourceBuffer).                        *)
(*                                                                         *)
(* Every await of the TypeScript code is a point where another event may   *)
(* run; the code between two awaits of one async function is one action.   *)
(* A manifest is modelled by the fields the protocol reads: endedAt,       *)
(* chunkCount, chunks, status.  version, title, creator and startedAt are  *)
(* set once and never read; a chunk's timestamp is never read.            *)
(***************************************************************************)
EXTENDS Integers, Sequences, FiniteSets, Bags, TLC

\* ------------------------------------------------------------------ bounds
\* number of media blobs the MediaRecorder delivers in one run
MaxChunks == 3
\* largest value Date.now() takes (the clock starts at 0)
MaxClock == 1
\* number of startRecording calls that start a MediaRecorder
MaxStarts == 2
\* number of stopRecording calls that may be in progress at the same time
MaxStopCalls == 2

\* number of chunks the producer of a played stream appends
MaxPlayerChunks == 3
\* number of poll callbacks of one StreamPlayer that may run at the same time
MaxTicks == 2
\* number of distinct chunks of which a fetch may fail in one run
MaxFetchFailures == 1
\* number of SourceBuffer.appendBuffer calls that may throw in one run
MaxThrows == 1

\* ------------------------------------------------------------ data model
\* endedAt: number | null.  A time is <<t>>, null is <<>>.
NoTime == <<>>

\* this.manifest: StreamManifest | null.
NullManifest ==
  [endedAt |-> NoTime, chunkCount |-> 0, chunks |-> <<>>,
   status |-> "null"]

\* createStreamManifest (startedAt: Date.now() is not modelled)
createStreamManifest ==
  [endedAt |-> NoTime, chunkCount |-> 0, chunks |-> <<>>,
   status |-> "live"]

\* UpdatedManifest without "chunkCount: manifest.chunkCount + 1"
UpdatedManifest_KeepsCount(m, chunkUri, index) ==
  [m EXCEPT !.chunks = Append(m.chunks, [uri |-> chunkUri, index |-> index])]

\* the manifest updateStreamManifest builds and sends to storage
UpdatedManifest(m, chunkUri, index) ==
  [m EXCEPT !.chunkCount = m.chunkCount + 1,
            !.chunks = Append(m.chunks, [uri |-> chunkUri, index |-> index])]

\* the manifest endStream builds and sends to storage
FinalizedManifest(m, now) ==
  [m EXCEPT !.endedAt = <<now>>, !.status = "ended"]

VARIABLES
  \* ---- storage (Grove): the manifest document at the stream's URI
  stored,
  \* ---- Date.now(): the last value read
  clock,
  \* ---- StreamRecorder fields (streamUri: 0 is null, 1 the stream's URI)
  manifest, streamUri, isRecording, uploadQueue, isUploading, chunkCounter,
  \* this.chunks.length: blobs captured so far (blob k is the k-th captured)
  captured,
  \* MediaRecorder: "none" | "recording" | "inactive"
  mrState,
  \* dataavailable events a MediaRecorder.stop() has queued and not yet fired
  finalPending,
  \* ---- StreamRecorder control state
  \* running processUploadQueue calls, each at its await
  uploads,
  \* an initializeStream call awaits uploadAsJson
  initInflight,
  \* stopRecording calls inside waitForUploads
  stopWaiting,
  \* stopRecording calls awaiting endStream: the bag of manifests they sent
  endings,
  \* ---- bookkeeping of the run
  \* startRecording calls that started a MediaRecorder
  starts,
  \* a finalizing write (endStream) has been issued
  finalIssued,
  \* a stopRecording call has completed and startRecording was not called since
  stopCompleted,
  \* stopRecording was called again after that completion
  furtherStop

recVars ==
  <<stored, clock, manifest, streamUri, isRecording, uploadQueue,
    isUploading, chunkCounter, captured, mrState, finalPending, uploads,
    initInflight, stopWaiting, endings, starts, finalIssued, stopCompleted,
    furtherStop>>

\* the StreamRecorder's own state (all but the storage and the clock)
recorderVars ==
  <<manifest, streamUri, isRecording, uploadQueue, isUploading, chunkCounter,
    captured, mrState, finalPending, uploads, initInflight, stopWaiting,
    endings, starts, finalIssued, stopCompleted, furtherStop>>

VARIABLES
  \* ---- StreamPlayer fields
  playerManifest, lastProcessedChunkIndex, pendingChunks, isBufferUpdating,
  isPlaying,
  \* this.pollingInterval !== null: the poll timer is armed
  pollingInterval,
  \* this.sourceBuffer !== null
  sourceBuffer,
  \* ---- Media Source Extensions objects
  \* MediaSource.readyState: "closed" | "open" | "ended"
  readyState,
  \* SourceBuffer.updating
  updating,
  \* ---- StreamPlayer control state
  \* initialize() was called
  initialized,
  \* the bag of running loops: initialize() and the poll callbacks, each at
  \* its await
  loaders,
  \* ---- bookkeeping of the run
  \* the chunk indices handed to SourceBuffer.appendBuffer, in call order
  appended,
  \* the chunk indices of which a fetch failed
  failedFetch,
  \* calls of the onStreamEnded callback
  streamEndedCalls,
  \* MediaSource.endOfStream() calls that ended the stream
  endOfStreamCalls,
  \* SourceBuffer.appendBuffer calls that threw
  appendThrows

\* the decoder-feed side of the player, passed through the helpers below
sinkVars ==
  <<pendingChunks, isBufferUpdating, updating, readyState, appended,
    endOfStreamCalls, appendThrows>>

playerVars ==
  <<playerManifest, lastProcessedChunkIndex, isPlaying, pollingInterval,
    sourceBuffer, initialized, loaders, failedFetch, streamEndedCalls,
    sinkVars>>

VARIABLES
  \* ---- the space page (app/space/[id]/page.tsx), the viewer that feeds its
  \* own MediaSource; readyState, updating, appended, appendThrows,
  \* endOfStreamCalls and failedFetch above then describe the page's
  \* MediaSource and SourceBuffer
  \* lastChunkIndexRef.current
  lastChunkIndexRef,
  \* pollingRef.current is an armed timer
  pollingRef,
  \* the page's initializeStream was called
  pageStarted,
  \* the bag of running loops of the page: initializeStream (with the
  \* sourceopen handler and loadInitialChunks) and the
  \* pollManifestForNewChunks calls, each at its await
  pageLoaders

pageVars == <<lastChunkIndexRef, pollingRef, pageStarted, pageLoaders>>

VARIABLES
  \* ---- more bookkeeping of the run
  \* StreamPlayer.stop() was called
  stopped,
  \* the viewers ("player", "page") of which a poll read a manifest with no
  \* chunk beyond the last processed index
  idlePolls,
  \* an upload of a chunk or a write of the manifest was rejected by storage
  storageFailed,
  \* the chunkCount of the cached manifest when a manifest fetch of a poll
  \* callback of the StreamPlayer failed for the first time; -1 before
  pollFailedAt

historyVars == <<stopped, idlePolls, storageFailed, pollFailedAt>>

vars == <<recVars, playerVars, pageVars, historyVars>>

\* ---------------------------------------------------------- StreamRecorder
\* Date.now() never runs backwards
Now(t) == t \in clock .. MaxClock

\* ProcessUploadQueue with "this.chunkCounter" in place of
\* "this.chunkCounter++"
ProcessUploadQueue_NoIncrement(q, up, cnt, ups) ==
  IF up \/ q = <<>>
    THEN [uploadQueue |-> q, isUploading |-> up, chunkCounter |-> cnt,
          uploads |-> ups]
    ELSE [uploadQueue |-> Tail(q), isUploading |-> TRUE,
          chunkCounter |-> cnt,
          uploads |-> ups \cup {[blob |-> Head(q), index |-> cnt,
                                 pc |-> "upload", payload |-> NullManifest]}]

\* processUploadQueue up to its first await: the state it leaves, as a record
\* of the fields it touches.
ProcessUploadQueue(q, up, cnt, ups) ==
  IF up \/ q = <<>>
    THEN [uploadQueue |-> q, isUploading |-> up, chunkCounter |-> cnt,
          uploads |-> ups]
    ELSE [uploadQueue |-> Tail(q), isUploading |-> TRUE,
          chunkCounter |-> cnt + 1,
          uploads |-> ups \cup {[blob |-> Head(q), index |-> cnt,
                                 pc |-> "upload", payload |-> NullManifest]}]

\* Finally without the restart "if (this.uploadQueue.length > 0)
\* this.processUploadQueue()"
Finally_NoRestart(u) ==
  /\ isUploading' = FALSE
  /\ uploads' = uploads \ {u}
  /\ UNCHANGED <<uploadQueue, chunkCounter>>

\* the finally block of processUploadQueue, run for the call u
Finally(u) ==
  LET r == ProcessUploadQueue(uploadQueue, FALSE, chunkCounter, uploads \ {u})
  IN /\ uploadQueue' = r.uploadQueue
     /\ isUploading' = r.isUploading
     /\ chunkCounter' = r.chunkCounter
     /\ uploads' = r.uploads

\* a StreamPlayer after its constructor
PlayerInit ==
  /\ playerManifest = NullManifest
  /\ lastProcessedChunkIndex = -1
  /\ pendingChunks = <<>>
  /\ isBufferUpdating = FALSE
  /\ isPlaying = FALSE
  /\ pollingInterval = FALSE
  /\ sourceBuffer = FALSE
  /\ readyState = "closed"
  /\ updating = FALSE
  /\ initialized = FALSE
  /\ loaders = EmptyBag
  /\ appended = <<>>
  /\ failedFetch = {}
  /\ streamEndedCalls = 0
  /\ endOfStreamCalls = 0
  /\ appendThrows = 0
  /\ stopped = FALSE
  /\ idlePolls = {}
  /\ pollFailedAt = -1

\* the space page after its first render
PageInit ==
  /\ lastChunkIndexRef = -1
  /\ pollingRef = FALSE
  /\ pageStarted = FALSE
  /\ pageLoaders = EmptyBag

\* a StreamRecorder after its constructor
RecorderInit ==
  /\ clock = 0
  /\ manifest = NullManifest
  /\ streamUri = 0
  /\ isRecording = FALSE
  /\ uploadQueue = <<>>
  /\ isUploading = FALSE
  /\ chunkCounter = 0
  /\ captured = 0
  /\ mrState = "none"
  /\ finalPending = 0
  /\ uploads = {}
  /\ initInflight = FALSE
  /\ stopWaiting = 0
  /\ endings = EmptyBag
  /\ starts = 0
  /\ finalIssued = FALSE
  /\ stopCompleted = FALSE
  /\ furtherStop = FALSE
  /\ storageFailed = FALSE

Init ==
  /\ stored = NullManifest
  /\ RecorderInit
  /\ PlayerInit
  /\ PageInit

\* StreamRecorder.initializeStream up to its await.  A recorder is initialized
\* once: the call is repeated only while no stream URI was obtained.
InitializeStream ==
  /\ streamUri = 0
  /\ ~initInflight
  /\ manifest' = createStreamManifest
  /\ initInflight' = TRUE
  /\ UNCHANGED <<stored, clock, streamUri, isRecording, uploadQueue,
                 isUploading, chunkCounter, captured, mrState, finalPending,
                 uploads, stopWaiting, endings, starts, finalIssued,
                 stopCompleted>>
  /\ UNCHANGED <<furtherStop, playerVars, pageVars, historyVars>>

\* uploadAsJson resolved: the document exists (it is the manifest that
\* initializeStream created and passed on), streamUri is set
InitializeStreamOk ==
  /\ initInflight
  /\ stored' = createStreamManifest
  /\ streamUri' = 1
  /\ initInflight' = FALSE
  /\ UNCHANGED <<clock, manifest, isRecording, uploadQueue, isUploading,
                 chunkCounter, captured, mrState, finalPending, uploads,
                 stopWaiting, endings, starts, finalIssued, stopCompleted>>
  /\ UNCHANGED <<furtherStop, playerVars, pageVars, historyVars>>

\* uploadAsJson rejected: handleError, rethrow; this.manifest stays set
InitializeStreamFail ==
  /\ initInflight
  /\ initInflight' = FALSE
  /\ UNCHANGED <<stored, clock, manifest, streamUri, isRecording, uploadQueue,
                 isUploading, chunkCounter, captured, mrState, finalPending,
                 uploads, stopWaiting, endings, starts, finalIssued,
                 stopCompleted>>
  /\ UNCHANGED <<furtherStop, playerVars, pageVars, historyVars>>

\* StreamRecorder.initializeStream called on a recorder that has a stream
\* already, up to its await: this.manifest is a new manifest at once, while
\* this.streamUri, chunkCounter, the upload queue and the calls in flight stay.
\* The documents of the successive streams are not kept apart: stored is the
\* manifest written last.
ReinitializeStream ==
  /\ streamUri # 0
  /\ ~initInflight
  /\ manifest' = createStreamManifest
  /\ initInflight' = TRUE
  /\ UNCHANGED <<stored, clock, streamUri, isRecording, uploadQueue,
                 isUploading, chunkCounter, captured, mrState, finalPending,
                 uploads, stopWaiting, endings, starts, finalIssued,
                 stopCompleted>>
  /\ UNCHANGED <<furtherStop, playerVars, pageVars, historyVars>>

\* StreamRecorder.startRecording (no await inside)
StartRecording ==
  /\ starts < MaxStarts
  /\ ~isRecording
  /\ streamUri # 0
  /\ manifest # NullManifest
  /\ isRecording' = TRUE
  /\ mrState' = "recording"
  /\ starts' = starts + 1
  /\ stopCompleted' = FALSE
  /\ furtherStop' = FALSE
  /\ UNCHANGED <<stored, clock, manifest, streamUri, uploadQueue,
                 isUploading, chunkCounter, captured, finalPending, uploads,
                 initInflight, stopWaiting, endings, finalIssued>>
  /\ UNCHANGED <<playerVars, pageVars, historyVars>>

\* HandleDataAvailable without the test "if (!this.isUploading)"
HandleDataAvailable_AlwaysStarts(final) ==
  /\ captured < MaxChunks
  /\ IF final
       THEN finalPending > 0 /\ finalPending' = finalPending - 1
       ELSE mrState = "recording" /\ finalPending' = finalPending
  /\ captured' = captured + 1
  /\ LET r == ProcessUploadQueue(Append(uploadQueue, captured + 1),
                                 FALSE, chunkCounter, uploads)
     IN /\ uploadQueue' = r.uploadQueue
        /\ isUploading' = r.isUploading
        /\ chunkCounter' = r.chunkCounter
        /\ uploads' = r.uploads
  /\ UNCHANGED <<stored, clock, manifest, streamUri, isRecording, mrState,
                 initInflight, stopWaiting, endings, starts, finalIssued,
                 stopCompleted>>
  /\ UNCHANGED <<furtherStop, playerVars, pageVars, historyVars>>

\* StreamRecorder.handleDataAvailable with a non-empty blob.  final: the event
\* is the one MediaRecorder.stop() queued, else a timeslice event.
HandleDataAvailable(final) ==
  /\ captured < MaxChunks
  /\ IF final
       THEN finalPending > 0 /\ finalPending' = finalPending - 1
       ELSE mrState = "recording" /\ finalPending' = finalPending
  /\ captured' = captured + 1
  /\ LET r == ProcessUploadQueue(Append(uploadQueue, captured + 1),
                                 isUploading, chunkCounter, uploads)
     IN /\ uploadQueue' = r.uploadQueue
        /\ isUploading' = r.isUploading
        /\ chunkCounter' = r.chunkCounter
        /\ uploads' = r.uploads
  /\ UNCHANGED <<stored, clock, manifest, streamUri, isRecording, mrState,
                 initInflight, stopWaiting, endings, starts, finalIssued,
                 stopCompleted>>
  /\ UNCHANGED <<furtherStop, playerVars, pageVars, historyVars>>

\* the dataavailable event of MediaRecorder.stop() with event.data.size = 0
HandleEmptyFinalData ==
  /\ finalPending > 0
  /\ finalPending' = finalPending - 1
  /\ UNCHANGED <<stored, clock, manifest, streamUri, isRecording,
                 uploadQueue, isUploading, chunkCounter, captured, mrState,
                 uploads, initInflight, stopWaiting, endings, starts,
                 finalIssued, stopCompleted>>
  /\ UNCHANGED <<furtherStop, playerVars, pageVars, historyVars>>

\* uploadStreamChunk resolved; updateStreamManifest builds its manifest from
\* this.manifest and sends it
UploadChunkOk(u) ==
  /\ u \in uploads
  /\ u.pc = "upload"
  /\ IF streamUri # 0 /\ manifest # NullManifest
       THEN /\ uploads' = (uploads \ {u}) \cup
                 {[u EXCEPT !.pc = "update",
                            !.payload = UpdatedManifest(manifest, u.blob,
                                                        u.index)]}
            /\ UNCHANGED <<uploadQueue, isUploading, chunkCounter>>
       ELSE Finally(u)
  /\ UNCHANGED <<stored, clock, manifest, streamUri, isRecording, captured,
                 mrState, finalPending, initInflight, stopWaiting, endings,
                 starts, finalIssued, stopCompleted>>
  /\ UNCHANGED <<furtherStop, playerVars, pageVars, historyVars>>

\* uploadStreamChunk rejected: catch logs, finally runs
UploadChunkFail(u) ==
  /\ u \in uploads
  /\ u.pc = "upload"
  /\ Finally(u)
  /\ UNCHANGED <<stored, clock, manifest, streamUri, isRecording, captured,
                 mrState, finalPending, initInflight, stopWaiting, endings,
                 starts, finalIssued, stopCompleted>>
  /\ storageFailed' = TRUE
  /\ UNCHANGED <<furtherStop, playerVars, pageVars, stopped, idlePolls,
                 pollFailedAt>>

\* updateJson resolved: storage holds the manifest sent, this.manifest is it
UpdateManifestOk(u) ==
  /\ u \in uploads
  /\ u.pc = "update"
  /\ stored' = u.payload
  /\ manifest' = u.payload
  /\ Finally(u)
  /\ UNCHANGED <<clock, streamUri, isRecording, captured, mrState,
                 finalPending, initInflight, stopWaiting, endings, starts,
                 finalIssued, stopCompleted>>
  /\ UNCHANGED <<furtherStop, playerVars, pageVars, historyVars>>

\* updateJson rejected: this.manifest keeps its value, catch logs, finally runs
UpdateManifestFail(u) ==
  /\ u \in uploads
  /\ u.pc = "update"
  /\ Finally(u)
  /\ UNCHANGED <<stored, clock, manifest, streamUri, isRecording, captured,
                 mrState, finalPending, initInflight, stopWaiting, endings,
                 starts, finalIssued, stopCompleted>>
  /\ storageFailed' = TRUE
  /\ UNCHANGED <<furtherStop, playerVars, pageVars, stopped, idlePolls,
                 pollFailedAt>>

\* the test of waitForUploads' checkUploads
Drained == uploadQueue = <<>> /\ ~isUploading

\* stopRecording calls in progress
StopCalls == stopWaiting + BagCardinality(endings)

\* endStream up to its await: the manifest it builds from this.manifest is sent
IssueEndStream ==
  \E t \in 0 .. MaxClock :
    /\ Now(t)
    /\ clock' = t
    /\ endings' = endings (+) SetToBag({FinalizedManifest(manifest, t)})
    /\ finalIssued' = TRUE

\* StreamRecorder.stopRecording up to its first await that suspends
StopRecording ==
  /\ StopCalls < MaxStopCalls
  /\ furtherStop' = (furtherStop \/ stopCompleted)
  /\ IF ~isRecording
       THEN UNCHANGED <<mrState, finalPending, stopWaiting, endings,
                        finalIssued, clock>>
       ELSE /\ IF mrState = "recording"
                 THEN mrState' = "inactive" /\ finalPending' = finalPending + 1
                 ELSE UNCHANGED <<mrState, finalPending>>
            /\ IF Drained
                 THEN IssueEndStream /\ UNCHANGED stopWaiting
                 ELSE /\ stopWaiting' = stopWaiting + 1
                      /\ UNCHANGED <<endings, finalIssued, clock>>
  /\ UNCHANGED <<stored, manifest, streamUri, isRecording, uploadQueue,
                 isUploading, chunkCounter, captured, uploads, initInflight,
                 starts, stopCompleted>>
  /\ UNCHANGED <<playerVars, pageVars, historyVars>>

\* a checkUploads timer of waitForUploads finds the queue drained
WaitForUploadsDone ==
  /\ stopWaiting > 0
  /\ Drained
  /\ stopWaiting' = stopWaiting - 1
  /\ IssueEndStream
  /\ UNCHANGED <<stored, manifest, streamUri, isRecording, uploadQueue,
                 isUploading, chunkCounter, captured, mrState, finalPending,
                 uploads, initInflight, starts, stopCompleted>>
  /\ UNCHANGED <<furtherStop, playerVars, pageVars, historyVars>>

\* EndStreamOk without "this.isRecording = false"
EndStreamOk_KeepsRecording(m) ==
  /\ BagIn(m, endings)
  /\ stored' = m
  /\ manifest' = m
  /\ stopCompleted' = TRUE
  /\ endings' = endings (-) SetToBag({m})
  /\ UNCHANGED <<clock, streamUri, isRecording, uploadQueue, isUploading,
                 chunkCounter, captured, mrState, finalPending, uploads,
                 initInflight, stopWaiting, starts, finalIssued>>
  /\ UNCHANGED <<furtherStop, playerVars, pageVars, historyVars>>

\* endStream's updateJson resolved for the manifest m
EndStreamOk(m) ==
  /\ BagIn(m, endings)
  /\ stored' = m
  /\ manifest' = m
  /\ isRecording' = FALSE
  /\ stopCompleted' = TRUE
  /\ endings' = endings (-) SetToBag({m})
  /\ UNCHANGED <<clock, streamUri, uploadQueue, isUploading, chunkCounter,
                 captured, mrState, finalPending, uploads, initInflight,
                 stopWaiting, starts, finalIssued>>
  /\ UNCHANGED <<furtherStop, playerVars, pageVars, historyVars>>

\* endStream's updateJson rejected: handleError, rethrow; isRecording stays
EndStreamFail(m) ==
  /\ BagIn(m, endings)
  /\ endings' = endings (-) SetToBag({m})
  /\ UNCHANGED <<stored, clock, manifest, streamUri, isRecording, uploadQueue,
                 isUploading, chunkCounter, captured, mrState, finalPending,
                 uploads, initInflight, stopWaiting, starts, finalIssued,
                 stopCompleted>>
  /\ UNCHANGED <<furtherStop, playerVars, pageVars, historyVars>>



Next ==
  \/ InitializeStream
  \/ InitializeStreamOk
  \/ InitializeStreamFail
  \/ StartRecording
  \/ \E final \in BOOLEAN : HandleDataAvailable(final)
  \/ HandleEmptyFinalData
  \/ \E u \in uploads : UploadChunkOk(u)
  \/ \E u \in uploads : UploadChunkFail(u)
  \/ \E u \in uploads : UpdateManifestOk(u)
  \/ \E u \in uploads : UpdateManifestFail(u)
  \/ StopRecording
  \/ WaitForUploadsDone
  \/ \E m \in BagToSet(endings) : EndStreamOk(m)
  \/ \E m \in BagToSet(endings) : EndStreamFail(m)

Spec == Init /\ [][Next]_vars

\* the recorder whose initializeStream may be called again at any time
NextReinit == Next \/ ReinitializeStream

SpecReinit == Init /\ [][NextReinit]_vars

\* The recorder with what its own scheduling guarantees: the checkUploads
\* timer of waitForUploads (setTimeout, 100 ms) does run.  Nothing is assumed
\* of storage: an upload or a manifest write may stay pending for ever.
SpecDrain == Spec /\ WF_vars(WaitForUploadsDone)

\* a storage call of processUploadQueue returns (resolves or rejects)
StorageReturns ==
  \E u \in uploads : \/ UploadChunkOk(u)
                     \/ UploadChunkFail(u)
                     \/ UpdateManifestOk(u)
                     \/ UpdateManifestFail(u)

\* The recorder when every storage call awaited by processUploadQueue
\* (uploadStreamChunk, updateStreamManifest) eventually returns.
SpecStorageReturns == Spec /\ WF_vars(StorageReturns)

\* ------------------------------------------------------------ StreamPlayer
\* the decoder-feed side as a record, so that the helpers compose
Sink ==
  [pendingChunks |-> pendingChunks, isBufferUpdating |-> isBufferUpdating,
   updating |-> updating, readyState |-> readyState, appended |-> appended,
   endOfStreamCalls |-> endOfStreamCalls, appendThrows |-> appendThrows]

SetSink(sk) ==
  /\ pendingChunks' = sk.pendingChunks
  /\ isBufferUpdating' = sk.isBufferUpdating
  /\ updating' = sk.updating
  /\ readyState' = sk.readyState
  /\ appended' = sk.appended
  /\ endOfStreamCalls' = sk.endOfStreamCalls
  /\ appendThrows' = sk.appendThrows

\* SourceBuffer.appendBuffer(chunk) that does not throw: the append runs until
\* updateend; appending to an ended MediaSource reopens it
AppendBuffer(sk, chunk) ==
  [sk EXCEPT !.updating = TRUE,
             !.appended = Append(@, chunk),
             !.readyState = IF @ = "ended" THEN "open" ELSE @]

\* StreamPlayer.processNextPendingChunk; throws: how many of the appendBuffer
\* calls it makes throw (each throwing call drops its chunk and recurses)
RECURSIVE ProcessNextPendingChunk(_, _)
ProcessNextPendingChunk(sk, throws) ==
  IF sk.isBufferUpdating \/ sk.pendingChunks = <<>> \/ ~sourceBuffer
    THEN sk
    ELSE LET nextChunk == Head(sk.pendingChunks)
             shifted == [sk EXCEPT !.pendingChunks = Tail(@)]
         IN IF throws > 0 \/ sk.updating
              THEN ProcessNextPendingChunk(
                     [shifted EXCEPT !.isBufferUpdating = FALSE,
                                     !.appendThrows = @ + 1], throws - 1)
              ELSE AppendBuffer([shifted EXCEPT !.isBufferUpdating = TRUE],
                                nextChunk)

\* "if (readyState === 'open') try { endOfStream() } catch {}": endOfStream
\* throws while the SourceBuffer is updating
TryEndOfStream(sk) ==
  IF sk.readyState = "open" /\ ~sk.updating
    THEN [sk EXCEPT !.readyState = "ended",
                    !.endOfStreamCalls = @ + 1]
    ELSE sk

\* the stored manifest has no chunk with an index beyond last
NoNewSegment(last) ==
  \A i \in 1 .. Len(stored.chunks) : stored.chunks[i].index <= last

\* the indices of the chunks of a manifest, in manifest order
Indices(m) == [i \in 1 .. Len(m.chunks) |-> m.chunks[i].index]

\* loadInitialChunks: the first min(2, length) chunks
InitialChunks(m) == SubSeq(Indices(m), 1, IF Len(m.chunks) < 2 THEN Len(m.chunks) ELSE 2)

\* NewChunks with "index >= last" in place of "index > last"
NewChunks_Inclusive(m, last) == SelectSeq(Indices(m), LAMBDA i : i >= last)

\* loadNewChunks: the chunks with index > lastProcessedChunkIndex
NewChunks(m, last) == SelectSeq(Indices(m), LAMBDA i : i > last)

\* the loop over loadChunk up to the next fetch: loadChunk returns at once for
\* a chunk with index <= lastProcessedChunkIndex
RECURSIVE SkipProcessed(_, _)
SkipProcessed(todo, last) ==
  IF todo # <<>> /\ Head(todo) <= last
    THEN SkipProcessed(Tail(todo), last)
    ELSE todo

Loader(kind, pc, latest, todo) ==
  [kind |-> kind, pc |-> pc, latest |-> latest, todo |-> todo]

\* the poll callbacks that are running
TicksRunning ==
  LET ticks == {l \in BagToSet(loaders) : l.kind = "tick"}
  IN BagCardinality([l \in ticks |-> CopiesIn(l, loaders)])

\* The loop l (of initialize or of a poll callback that read the manifest
\* latest) goes on over the chunks todo, with lastProcessedChunkIndex = last,
\* the sink in state sk and the poll timer armed iff poll.  It awaits the next
\* fetch, or it is over; a poll callback then handles the status "ended".
Continue(l, latest, todo, last, sk, poll) ==
  LET rest == SkipProcessed(todo, last)
      others == loaders (-) SetToBag({l})
  IN IF rest # <<>>
       THEN /\ loaders' = others (+) SetToBag({Loader(l.kind, "fetch", latest, rest)})
            /\ SetSink(sk)
            /\ pollingInterval' = poll
            /\ UNCHANGED streamEndedCalls
       ELSE /\ loaders' = others
            /\ IF l.kind = "tick" /\ latest.status = "ended"
                 THEN /\ pollingInterval' = FALSE
                      /\ streamEndedCalls' = streamEndedCalls + 1
                      /\ SetSink(TryEndOfStream(sk))
                 ELSE /\ pollingInterval' = poll
                      /\ SetSink(sk)
                      /\ UNCHANGED streamEndedCalls

\* StreamPlayer.initialize up to its first await
Initialize ==
  /\ ~initialized
  /\ initialized' = TRUE
  /\ loaders' = loaders (+) SetToBag({Loader("init", "manifest", NullManifest, <<>>)})
  /\ UNCHANGED <<playerManifest, lastProcessedChunkIndex, isPlaying,
                 pollingInterval, sourceBuffer, failedFetch, streamEndedCalls,
                 sinkVars>>
  /\ UNCHANGED <<stored, clock, recorderVars, pageVars, historyVars>>

\* initialize: loadStreamManifest resolved; setupMediaSource awaits sourceopen
InitManifestLoaded(l) ==
  /\ l.kind = "init" /\ l.pc = "manifest"
  /\ playerManifest' = stored
  /\ loaders' = (loaders (-) SetToBag({l}))
                  (+) SetToBag({Loader("init", "sourceopen", NullManifest, <<>>)})
  /\ UNCHANGED <<lastProcessedChunkIndex, isPlaying, pollingInterval,
                 sourceBuffer, initialized, failedFetch, streamEndedCalls,
                 sinkVars>>
  /\ UNCHANGED <<stored, clock, recorderVars, pageVars, historyVars>>

\* initialize: loadStreamManifest rejected; handleError, rethrow
InitManifestFailed(l) ==
  /\ l.kind = "init" /\ l.pc = "manifest"
  /\ loaders' = loaders (-) SetToBag({l})
  /\ UNCHANGED <<playerManifest, lastProcessedChunkIndex, isPlaying,
                 pollingInterval, sourceBuffer, initialized, failedFetch,
                 streamEndedCalls, sinkVars>>
  /\ UNCHANGED <<stored, clock, recorderVars, pageVars, historyVars>>

\* the sourceopen event: the SourceBuffer is created; initialize goes on with
\* startPolling and loadInitialChunks up to its first fetch
SourceOpen(l) ==
  /\ l.kind = "init" /\ l.pc = "sourceopen"
  /\ sourceBuffer' = TRUE
  /\ isPlaying' = TRUE
  /\ Continue(l, NullManifest, InitialChunks(playerManifest),
              lastProcessedChunkIndex, [Sink EXCEPT !.readyState = "open"],
              TRUE)
  /\ UNCHANGED <<playerManifest, lastProcessedChunkIndex, initialized,
                 failedFetch>>
  /\ UNCHANGED <<stored, clock, recorderVars, pageVars, historyVars>>

\* the setInterval timer fires: a poll callback starts loadStreamManifest
PollTick ==
  /\ pollingInterval
  /\ TicksRunning < MaxTicks
  /\ loaders' = loaders (+) SetToBag({Loader("tick", "manifest", NullManifest, <<>>)})
  /\ UNCHANGED <<playerManifest, lastProcessedChunkIndex, isPlaying,
                 pollingInterval, sourceBuffer, initialized, failedFetch,
                 streamEndedCalls, sinkVars>>
  /\ UNCHANGED <<stored, clock, recorderVars, pageVars, historyVars>>

\* a poll callback: loadStreamManifest resolved with the stored manifest;
\* loadNewChunks runs only if chunkCount grew
PollManifestLoaded(l) ==
  /\ l.kind = "tick" /\ l.pc = "manifest"
  /\ IF stored.chunkCount > playerManifest.chunkCount
       THEN /\ playerManifest' = stored
            /\ Continue(l, stored, NewChunks(stored, lastProcessedChunkIndex),
                        lastProcessedChunkIndex, Sink, pollingInterval)
       ELSE /\ UNCHANGED playerManifest
            /\ Continue(l, stored, <<>>, lastProcessedChunkIndex, Sink,
                        pollingInterval)
  /\ UNCHANGED <<lastProcessedChunkIndex, isPlaying, sourceBuffer,
                 initialized, failedFetch>>
  /\ idlePolls' = IF NoNewSegment(lastProcessedChunkIndex)
                    THEN idlePolls \cup {"player"} ELSE idlePolls
  /\ UNCHANGED <<stored, clock, recorderVars, pageVars, stopped, storageFailed,
                 pollFailedAt>>

\* PollManifestFailed with a catch that also calls stopPolling
PollManifestFailed_StopsPolling(l) ==
  /\ l.kind = "tick" /\ l.pc = "manifest"
  /\ loaders' = loaders (-) SetToBag({l})
  /\ pollingInterval' = FALSE
  /\ UNCHANGED <<playerManifest, lastProcessedChunkIndex, isPlaying,
                 sourceBuffer, initialized, failedFetch, streamEndedCalls,
                 sinkVars>>
  /\ pollFailedAt' = IF pollFailedAt = -1 THEN playerManifest.chunkCount
                                         ELSE pollFailedAt
  /\ UNCHANGED <<stored, clock, recorderVars, pageVars, stopped, idlePolls,
                 storageFailed>>

\* a poll callback: loadStreamManifest rejected; the catch logs
PollManifestFailed(l) ==
  /\ l.kind = "tick" /\ l.pc = "manifest"
  /\ loaders' = loaders (-) SetToBag({l})
  /\ UNCHANGED <<playerManifest, lastProcessedChunkIndex, isPlaying,
                 pollingInterval, sourceBuffer, initialized, failedFetch,
                 streamEndedCalls, sinkVars>>
  /\ pollFailedAt' = IF pollFailedAt = -1 THEN playerManifest.chunkCount
                                         ELSE pollFailedAt
  /\ UNCHANGED <<stored, clock, recorderVars, pageVars, stopped, idlePolls,
                 storageFailed>>

\* FetchOk with a loadChunk that clears isBufferUpdating before it calls
\* processNextPendingChunk
FetchOk_ClearsFlag(l, throws) ==
  /\ l.pc = "fetch"
  /\ LET chunk == Head(l.todo)
         last == IF chunk > lastProcessedChunkIndex
                   THEN chunk ELSE lastProcessedChunkIndex
         sk == ProcessNextPendingChunk(
                 [Sink EXCEPT !.pendingChunks = Append(@, chunk),
                              !.isBufferUpdating = FALSE], throws)
     IN /\ lastProcessedChunkIndex' = last
        /\ Continue(l, l.latest, Tail(l.todo), last, sk, pollingInterval)
  /\ UNCHANGED <<playerManifest, isPlaying, sourceBuffer, initialized,
                 failedFetch>>
  /\ UNCHANGED <<stored, clock, recorderVars, pageVars, historyVars>>

\* loadChunk: the fetch resolved; the data joins pendingChunks,
\* processNextPendingChunk runs, lastProcessedChunkIndex is raised, and the
\* loop goes on
FetchOk(l, throws) ==
  /\ l.pc = "fetch"
  /\ LET chunk == Head(l.todo)
         last == IF chunk > lastProcessedChunkIndex
                   THEN chunk ELSE lastProcessedChunkIndex
         sk == ProcessNextPendingChunk(
                 [Sink EXCEPT !.pendingChunks = Append(@, chunk)], throws)
     IN /\ lastProcessedChunkIndex' = last
        /\ Continue(l, l.latest, Tail(l.todo), last, sk, pollingInterval)
  /\ UNCHANGED <<playerManifest, isPlaying, sourceBuffer, initialized,
                 failedFetch>>
  /\ UNCHANGED <<stored, clock, recorderVars, pageVars, historyVars>>

\* loadChunk: the fetch failed; the catch reports the error and the loop goes
\* on with the next chunk
FetchFail(l) ==
  /\ l.pc = "fetch"
  /\ Cardinality(failedFetch \cup {Head(l.todo)}) <= MaxFetchFailures
  /\ failedFetch' = failedFetch \cup {Head(l.todo)}
  /\ Continue(l, l.latest, Tail(l.todo), lastProcessedChunkIndex, Sink,
              pollingInterval)
  /\ UNCHANGED <<playerManifest, lastProcessedChunkIndex, isPlaying,
                 sourceBuffer, initialized>>
  /\ UNCHANGED <<stored, clock, recorderVars, pageVars, historyVars>>

\* UpdateEnd with a handler that clears isBufferUpdating and does not call
\* processNextPendingChunk
UpdateEnd_OnlyClears(throws) ==
  /\ updating
  /\ SetSink([Sink EXCEPT !.updating = FALSE, !.isBufferUpdating = FALSE])
  /\ UNCHANGED <<playerManifest, lastProcessedChunkIndex, isPlaying,
                 pollingInterval, sourceBuffer, initialized, loaders,
                 failedFetch, streamEndedCalls>>
  /\ UNCHANGED <<stored, clock, recorderVars, pageVars, historyVars>>

\* the updateend event of the SourceBuffer and its handler
UpdateEnd(throws) ==
  /\ updating
  /\ SetSink(ProcessNextPendingChunk(
               [Sink EXCEPT !.updating = FALSE, !.isBufferUpdating = FALSE],
               throws))
  /\ UNCHANGED <<playerManifest, lastProcessedChunkIndex, isPlaying,
                 pollingInterval, sourceBuffer, initialized, loaders,
                 failedFetch, streamEndedCalls>>
  /\ UNCHANGED <<stored, clock, recorderVars, pageVars, historyVars>>

\* StreamPlayer.stop
Stop ==
  /\ initialized
  /\ pollingInterval' = FALSE
  /\ isPlaying' = FALSE
  /\ SetSink(TryEndOfStream(Sink))
  /\ UNCHANGED <<playerManifest, lastProcessedChunkIndex, sourceBuffer,
                 initialized, loaders, failedFetch, streamEndedCalls>>
  /\ stopped' = TRUE
  /\ UNCHANGED <<stored, clock, recorderVars, pageVars, idlePolls, storageFailed,
                 pollFailedAt>>

\* ---- the producer of the played stream, seen from storage: it appends the
\* chunks 0, 1, 2, .. one manifest write each, and finalizes once
ProducerAppend ==
  /\ stored.status = "live"
  /\ Len(stored.chunks) < MaxPlayerChunks
  /\ stored' = UpdatedManifest(stored, Len(stored.chunks) + 1,
                               Len(stored.chunks))
  /\ UNCHANGED <<clock, recorderVars, playerVars, pageVars, historyVars>>

ProducerEnd ==
  /\ stored.status = "live"
  /\ stored' = FinalizedManifest(stored, clock)
  /\ UNCHANGED <<clock, recorderVars, playerVars, pageVars, historyVars>>

\* a stream exists in storage and a StreamPlayer was constructed for it
InitPlayer ==
  /\ stored = createStreamManifest
  /\ RecorderInit
  /\ PlayerInit
  /\ PageInit

\* how many appendBuffer calls of one run of processNextPendingChunk may throw
Throws == 0 .. (MaxThrows - appendThrows)

NextPlayer ==
  \/ Initialize
  \/ \E l \in BagToSet(loaders) : InitManifestLoaded(l)
  \/ \E l \in BagToSet(loaders) : InitManifestFailed(l)
  \/ \E l \in BagToSet(loaders) : SourceOpen(l)
  \/ PollTick
  \/ \E l \in BagToSet(loaders) : PollManifestLoaded(l)
  \/ \E l \in BagToSet(loaders) : PollManifestFailed(l)
  \/ \E l \in BagToSet(loaders), throws \in Throws : FetchOk(l, throws)
  \/ \E l \in BagToSet(loaders) : FetchFail(l)
  \/ \E throws \in Throws : UpdateEnd(throws)
  \/ Stop
  \/ ProducerAppend
  \/ ProducerEnd

SpecPlayer == InitPlayer /\ [][NextPlayer]_vars

\* The player when every append the SourceBuffer accepted eventually signals
\* updateend.
SpecUpdateEnd == SpecPlayer /\ WF_vars(\E throws \in Throws : UpdateEnd(throws))

\* ------------------------------------------- the space page's own poller
\* the StreamPlayer fields, which the page does not have
playerOwnVars ==
  <<playerManifest, lastProcessedChunkIndex, isPlaying, pollingInterval,
    sourceBuffer, initialized, loaders, streamEndedCalls>>

\* a loop of the page at its await; ended: the manifest it read has the status
\* "ended"; todo: the chunk indices its for loop still has to do
PageLoader(kind, pc, ended, todo) ==
  [kind |-> kind, pc |-> pc, ended |-> ended, todo |-> todo]

\* the pollManifestForNewChunks calls that are running
PagePollsRunning ==
  LET polls == {l \in BagToSet(pageLoaders) : l.kind = "poll"}
  IN BagCardinality([l \in polls |-> CopiesIn(l, pageLoaders)])

\* The for loop of l (loadInitialChunks, or pollManifestForNewChunks that read
\* a manifest with the status ended) goes on over the chunks todo with the
\* MediaSource in state sk: it awaits the next fetch, or it is over.  A poll
\* returns before a fetch if the MediaSource is not open; at its end it
\* handles the status "ended".  loadInitialChunks is followed by setInterval.
PageContinue(l, ended, todo, sk) ==
  LET others == pageLoaders (-) SetToBag({l})
  IN IF todo # <<>>
       THEN /\ pageLoaders' =
                 IF l.kind = "poll" /\ sk.readyState # "open"
                   THEN others
                   ELSE others (+) SetToBag({PageLoader(l.kind, "fetch", ended, todo)})
            /\ SetSink(sk)
            /\ UNCHANGED pollingRef
       ELSE /\ pageLoaders' = others
            /\ IF l.kind = "init"
                 THEN pollingRef' = TRUE /\ SetSink(sk)
                 ELSE IF ended
                        THEN pollingRef' = FALSE /\ SetSink(TryEndOfStream(sk))
                        ELSE UNCHANGED pollingRef /\ SetSink(sk)

\* the page's initializeStream up to its fetch of the manifest
PageInitializeStream ==
  /\ ~pageStarted
  /\ pageStarted' = TRUE
  /\ pageLoaders' = pageLoaders (+) SetToBag({PageLoader("init", "manifest", FALSE, <<>>)})
  /\ UNCHANGED <<lastChunkIndexRef, pollingRef>>
  /\ UNCHANGED <<historyVars, stored, clock, recorderVars, playerOwnVars, failedFetch,
                 sinkVars>>

\* initializeStream: the manifest was fetched; a MediaSource is created and
\* its sourceopen event awaited
PageManifestLoaded(l) ==
  /\ l.kind = "init" /\ l.pc = "manifest"
  /\ pageLoaders' = (pageLoaders (-) SetToBag({l}))
                      (+) SetToBag({PageLoader("init", "sourceopen", FALSE, Indices(stored))})
  /\ UNCHANGED <<lastChunkIndexRef, pollingRef, pageStarted>>
  /\ UNCHANGED <<historyVars, stored, clock, recorderVars, playerOwnVars, failedFetch,
                 sinkVars>>

\* initializeStream: the fetch of the manifest rejected; the catch sets the
\* error
PageManifestFailed(l) ==
  /\ l.kind = "init" /\ l.pc = "manifest"
  /\ pageLoaders' = pageLoaders (-) SetToBag({l})
  /\ UNCHANGED <<lastChunkIndexRef, pollingRef, pageStarted>>
  /\ UNCHANGED <<historyVars, stored, clock, recorderVars, playerOwnVars, failedFetch,
                 sinkVars>>

\* the sourceopen handler: the SourceBuffer is created and loadInitialChunks
\* runs over every chunk of the manifest, up to its first fetch
PageSourceOpen(l) ==
  /\ l.kind = "init" /\ l.pc = "sourceopen"
  /\ PageContinue(l, FALSE, l.todo, [Sink EXCEPT !.readyState = "open"])
  /\ UNCHANGED <<lastChunkIndexRef, pageStarted>>
  /\ UNCHANGED <<historyVars, stored, clock, recorderVars, playerOwnVars, failedFetch>>

\* the setInterval timer fires: pollManifestForNewChunks fetches the manifest
PagePollTick ==
  /\ pollingRef
  /\ PagePollsRunning < MaxTicks
  /\ pageLoaders' = pageLoaders (+) SetToBag({PageLoader("poll", "manifest", FALSE, <<>>)})
  /\ UNCHANGED <<lastChunkIndexRef, pollingRef, pageStarted>>
  /\ UNCHANGED <<historyVars, stored, clock, recorderVars, playerOwnVars, failedFetch,
                 sinkVars>>

\* pollManifestForNewChunks: the manifest was fetched; newChunks are the
\* chunks with index > lastChunkIndexRef.current
PagePollManifestLoaded(l) ==
  /\ l.kind = "poll" /\ l.pc = "manifest"
  /\ PageContinue(l, stored.status = "ended",
                  NewChunks(stored, lastChunkIndexRef), Sink)
  /\ UNCHANGED <<lastChunkIndexRef, pageStarted>>
  /\ idlePolls' = IF NoNewSegment(lastChunkIndexRef)
                    THEN idlePolls \cup {"page"} ELSE idlePolls
  /\ UNCHANGED <<stopped, storageFailed, pollFailedAt, stored, clock, recorderVars,
                 playerOwnVars, failedFetch>>

\* pollManifestForNewChunks: the fetch of the manifest rejected; the catch logs
PagePollManifestFailed(l) ==
  /\ l.kind = "poll" /\ l.pc = "manifest"
  /\ pageLoaders' = pageLoaders (-) SetToBag({l})
  /\ UNCHANGED <<lastChunkIndexRef, pollingRef, pageStarted>>
  /\ UNCHANGED <<historyVars, stored, clock, recorderVars, playerOwnVars, failedFetch,
                 sinkVars>>

\* a chunk was fetched and is handed to appendBuffer.  If appendBuffer throws
\* (throw, or the SourceBuffer is updating) the catch resolves the promise:
\* lastChunkIndexRef is set and the loop goes on.  Else the loop awaits
\* updateend.
PageFetchOk(l, throw) ==
  /\ l.pc = "fetch"
  /\ LET chunk == Head(l.todo)
     IN IF throw \/ updating
          THEN /\ lastChunkIndexRef' = chunk
               /\ PageContinue(l, l.ended, Tail(l.todo),
                               [Sink EXCEPT !.appendThrows = @ + 1])
          ELSE /\ pageLoaders' = (pageLoaders (-) SetToBag({l}))
                     (+) SetToBag({PageLoader(l.kind, "append", l.ended, l.todo)})
               /\ SetSink(AppendBuffer(Sink, chunk))
               /\ UNCHANGED <<lastChunkIndexRef, pollingRef>>
  /\ UNCHANGED pageStarted
  /\ UNCHANGED <<historyVars, stored, clock, recorderVars, playerOwnVars, failedFetch>>

\* the fetch of a chunk rejected: the exception leaves the loop (and, in
\* initializeStream, the sourceopen handler before setInterval)
PageFetchFail(l) ==
  /\ l.pc = "fetch"
  /\ Cardinality(failedFetch \cup {Head(l.todo)}) <= MaxFetchFailures
  /\ failedFetch' = failedFetch \cup {Head(l.todo)}
  /\ pageLoaders' = pageLoaders (-) SetToBag({l})
  /\ UNCHANGED <<lastChunkIndexRef, pollingRef, pageStarted>>
  /\ UNCHANGED <<historyVars, stored, clock, recorderVars, playerOwnVars, sinkVars>>

\* the updateend event: the loop that awaits it sets lastChunkIndexRef and
\* goes on
PageUpdateEnd(l) ==
  /\ updating
  /\ l.pc = "append"
  /\ lastChunkIndexRef' = Head(l.todo)
  /\ PageContinue(l, l.ended, Tail(l.todo), [Sink EXCEPT !.updating = FALSE])
  /\ UNCHANGED pageStarted
  /\ UNCHANGED <<historyVars, stored, clock, recorderVars, playerOwnVars, failedFetch>>

\* whether one more appendBuffer call may throw for want of room
PageThrows == IF appendThrows < MaxThrows THEN BOOLEAN ELSE {FALSE}

NextPage ==
  \/ PageInitializeStream
  \/ \E l \in BagToSet(pageLoaders) : PageManifestLoaded(l)
  \/ \E l \in BagToSet(pageLoaders) : PageManifestFailed(l)
  \/ \E l \in BagToSet(pageLoaders) : PageSourceOpen(l)
  \/ PagePollTick
  \/ \E l \in BagToSet(pageLoaders) : PagePollManifestLoaded(l)
  \/ \E l \in BagToSet(pageLoaders) : PagePollManifestFailed(l)
  \/ \E l \in BagToSet(pageLoaders), throw \in PageThrows : PageFetchOk(l, throw)
  \/ \E l \in BagToSet(pageLoaders) : PageFetchFail(l)
  \/ \E l \in BagToSet(pageLoaders) : PageUpdateEnd(l)
  \/ ProducerAppend
  \/ ProducerEnd

\* a stream and the space page that plays it
SpecPage == InitPlayer /\ [][NextPage]_vars

\* a stream and one viewer of it: a StreamPlayer or the space page
NextViewer ==
  \/ ~pageStarted /\ NextPlayer
  \/ ~initialized /\ NextPage

SpecViewer == InitPlayer /\ [][NextViewer]_vars

\* ------------------------------------------------- properties: recorder
\* the chunks of m carry the indices 0, 1, .., N-1 in this order
Contiguous(m) == \A i \in 1 .. Len(m.chunks) : m.chunks[i].index = i - 1

\* the blobs the chunks of m refer to
Referenced(m) == {m.chunks[i].uri : i \in 1 .. Len(m.chunks)}

\* the blobs waiting in the upload queue
Queued == {uploadQueue[i] : i \in 1 .. Len(uploadQueue)}

\* the blobs a running processUploadQueue call holds
InFlight == {u.blob : u \in uploads}

\* C1: in every reachable state, also after failed uploads or manifest
\* writes, the manifest (the recorder's copy and the stored document) has
\* chunks[i].index = i for every position i.
C1_ManifestContiguous == Contiguous(manifest) /\ Contiguous(stored)

\* C2: every captured segment is referenced by the manifest (the recorder's
\* copy or the stored document), still in the upload queue, or in flight.
C2_NoSegmentDropped ==
  \A b \in 1 .. captured :
    b \in Referenced(manifest) \cup Referenced(stored) \cup Queued \cup InFlight

\* C3: once the stored manifest has status "ended", no later write stores
\* another status.
C3_StatusOnlyLiveToEnded ==
  [][stored.status = "ended" => stored'.status = "ended"]_vars

\* C4: from the moment the finalizing write is issued on, the upload queue is
\* empty and no upload is in flight, so no segment append follows it.
C4_FinalWriteIsLast == finalIssued => (uploadQueue = <<>> /\ uploads = {})

\* C5: a stopRecording call made after a stopRecording call has completed
\* (and before any new startRecording) issues no storage write and leaves the
\* stored manifest and the recorder's manifest unchanged.
C5_StopIdempotent ==
  [][(stopCompleted /\ StopRecording)
       => UNCHANGED <<stored, manifest, endings, stopWaiting, uploads,
                      isRecording>>]_vars

\* C5 witness: stopRecording was called again after a completed call, and the
\* stored manifest is the finalized one.
C5_Witness == furtherStop /\ stopCompleted /\ stored.status = "ended"

\* C6: the endedAt of the stored manifest never changes once it is non-null.
C6_EndedAtSetOnce ==
  [][stored.endedAt # NoTime => stored'.endedAt = stored.endedAt]_vars

\* --------------------------------------------------- properties: player
\* the chunk indices handed to appendBuffer so far
Appended == {appended[k] : k \in 1 .. Len(appended)}

\* C7: the indices handed to SourceBuffer.appendBuffer are strictly
\* increasing in call order.
C7_AppendOrder ==
  \A j, k \in 1 .. Len(appended) : j < k => appended[j] < appended[k]

\* C8: once a poll has handled the status "ended", every chunk of the ended
\* manifest has been appended to the sink.  The claim is granted its most
\* favourable case: no loop is running any more, no fetch failed, no
\* appendBuffer call threw, nothing waits in pendingChunks and no append is in
\* progress.
C8_FinalDeltaBeforeEnd ==
  (/\ streamEndedCalls > 0
   /\ loaders = EmptyBag
   /\ failedFetch = {}
   /\ appendThrows = 0
   /\ pendingChunks = <<>>
   /\ ~updating)
    => \A i \in 1 .. Len(stored.chunks) : stored.chunks[i].index \in Appended

\* C9: the end-of-stream signal is issued at most once: onStreamEnded is
\* called at most once and MediaSource.endOfStream ends the stream at most
\* once.
C9_EndOfStreamOnce == streamEndedCalls <= 1 /\ endOfStreamCalls <= 1

\* C10: a chunk appended to the sink is preceded in the sink by every chunk of
\* smaller index of which a fetch failed.
C10_FailedBlocksSuccessors ==
  \A k \in 1 .. Len(appended) :
    \A i \in failedFetch :
      i < appended[k] => \E j \in 1 .. (k - 1) : appended[j] = i

\* ----------------------------------------- properties: either viewer
\* C11: a poll that reads a manifest with no chunk beyond the last processed
\* index starts no fetch, appends nothing to the sink and leaves the last
\* processed index unchanged (StreamPlayer's poll callback with
\* lastProcessedChunkIndex, the page's pollManifestForNewChunks with
\* lastChunkIndexRef).
C11_IdempotentRepoll ==
  [][/\ \A l \in BagToSet(loaders) :
          (PollManifestLoaded(l) /\ NoNewSegment(lastProcessedChunkIndex))
            => /\ loaders' = loaders (-) SetToBag({l})
               /\ appended' = appended
               /\ pendingChunks' = pendingChunks
               /\ lastProcessedChunkIndex' = lastProcessedChunkIndex
     /\ \A l \in BagToSet(pageLoaders) :
          (PagePollManifestLoaded(l) /\ NoNewSegment(lastChunkIndexRef))
            => /\ pageLoaders' = pageLoaders (-) SetToBag({l})
               /\ appended' = appended
               /\ lastChunkIndexRef' = lastChunkIndexRef]_vars

\* C11 witness: after chunks were appended to the sink, a poll of the
\* StreamPlayer read a manifest with nothing new.
C11_Witness ==
  /\ "player" \in idlePolls
  /\ appended # <<>>
  /\ lastProcessedChunkIndex >= 0

\* the same for the page's poller
C11_PageWitness ==
  /\ "page" \in idlePolls
  /\ appended # <<>>
  /\ lastChunkIndexRef >= 0

\* ------------------------------------------- properties: player, part 2
\* no loop of the viewer is running, nothing waits in pendingChunks and no
\* append is in progress
Quiescent ==
  /\ loaders = EmptyBag
  /\ pageLoaders = EmptyBag
  /\ pendingChunks = <<>>
  /\ ~updating

\* C12: a payload whose appendBuffer call threw is retried and ends up in the
\* sink: once the player is quiescent, every chunk that was fetched (every
\* index up to lastProcessedChunkIndex, no fetch having failed) has been
\* appended.
C12_ThrownPayloadAppended ==
  (Quiescent /\ failedFetch = {})
    => \A i \in 0 .. lastProcessedChunkIndex : i \in Appended

\* without a throwing appendBuffer call every fetched chunk does reach the
\* sink
C12_AppendedUnlessThrown ==
  (Quiescent /\ failedFetch = {} /\ appendThrows = 0)
    => \A i \in 0 .. lastProcessedChunkIndex : i \in Appended

\* a poll callback handled the status "ended" in this step and, the
\* MediaSource being open, called MediaSource.endOfStream (which ended the
\* stream, or threw and left it open)
EndOfStreamCalled ==
  /\ streamEndedCalls' = streamEndedCalls + 1
  /\ (endOfStreamCalls' = endOfStreamCalls + 1 \/ readyState' = "open")

\* C13: when a poll callback calls MediaSource.endOfStream because the
\* manifest is ended, no segment fetch is in flight, pendingChunks is empty
\* and isBufferUpdating is false.
C13_EndOfStreamAtQuiescence ==
  [][EndOfStreamCalled
       => /\ \A l \in BagToSet(loaders') : l.pc # "fetch"
          /\ pendingChunks' = <<>>
          /\ ~isBufferUpdating']_vars

\* ----------------------------------------- properties: recorder, part 2
\* C14: after storage has rejected a chunk upload or a manifest write, the
\* recorder attempts no further manifest write for a segment: no
\* processUploadQueue call is at its updateStreamManifest await.
C14_FailedIsTerminal ==
  storageFailed => \A u \in uploads : u.pc # "update"

\* C18: a stopRecording call that waits in waitForUploads eventually leaves
\* the wait (to finalize the manifest, or to report what it abandons), also
\* when an in-flight upload or manifest write never completes.
C18_DrainBounded == (stopWaiting > 0) ~> (stopWaiting = 0)

\* the manifest values the recorder holds, has in flight to storage, or has
\* written
ManifestValues ==
  {manifest, stored} \cup {u.payload : u \in uploads} \cup BagToSet(endings)

\* C19: in every manifest the recorder holds or writes, the chunk indices are
\* strictly increasing (hence unique), whatever uploads fail and however
\* initializeStream, startRecording and stopRecording are called.
C19_IndicesIncrease ==
  \A m \in ManifestValues :
    \A i \in 1 .. (Len(m.chunks) - 1) :
      m.chunks[i].index < m.chunks[i + 1].index

\* C19 witness: a finalized manifest of two chunks that does not start at
\* index 0 although no storage call failed: initializeStream was called again
\* after a chunk, two more chunks were appended, stopRecording finalized.
C19_Witness ==
  /\ ~storageFailed
  /\ stored.status = "ended"
  /\ Len(stored.chunks) >= 2
  /\ stored.chunks[1].index > 0

\* C20: in every manifest the producer creates, holds or writes, chunkCount
\* is the length of chunks.
C20_ChunkCountIsLength ==
  \A m \in ManifestValues : m.chunkCount = Len(m.chunks)

\* C20 witness: after a rejected storage call, the stored manifest is a
\* finalized one (created, updated twice, ended) with two chunks.
C20_Witness ==
  /\ storageFailed
  /\ stored.status = "ended"
  /\ Len(stored.chunks) >= 2

\* ------------------------------------------- properties: player, part 3
\* C15: in every state after StreamPlayer.stop() was called, no poll timer is
\* armed (so that no poll callback starts a manifest fetch).
C15_StopCancelsPolling == stopped => ~pollingInterval

\* C16: after StreamPlayer.stop() was called, a manifest fetch or segment
\* fetch that completes hands nothing to the sink, leaves
\* lastProcessedChunkIndex unchanged and causes no stream-ended notification.
C16_ResultsDiscardedAfterStop ==
  [][stopped => /\ appended' = appended
                /\ lastProcessedChunkIndex' = lastProcessedChunkIndex
                /\ streamEndedCalls' = streamEndedCalls]_vars

\* C17: while the bootstrap load of initialize() is in progress (its loop
\* awaits a segment fetch), no poll callback is running, that is, none
\* fetches a manifest or a segment.
C17_BootstrapBeforePolling ==
  (\E l \in BagToSet(loaders) : l.kind = "init" /\ l.pc = "fetch")
    => \A l \in BagToSet(loaders) : l.kind # "tick"

\* ----------------------------------------- properties: recorder, part 3
\* C22: at most one segment is between its dequeue and the end of its
\* processUploadQueue call, and segments are dequeued in capture order: the
\* queue holds the segments captured last, oldest first, and a segment in
\* flight is older than every queued one.
C22_SingleFlightFifo ==
  /\ Cardinality(uploads) <= 1
  /\ \A i \in 1 .. Len(uploadQueue) :
       uploadQueue[i] = captured - Len(uploadQueue) + i
  /\ \A u \in uploads : u.blob <= captured - Len(uploadQueue)

\* C22 witness: after a storage call has ended (rejected), the next segment
\* is in flight while a third waits in the queue.
C22_Witness ==
  /\ storageFailed
  /\ Cardinality(uploads) = 1
  /\ uploadQueue # <<>>

\* C23: at most one manifest write of the recorder (the updateJson of
\* updateStreamManifest or of endStream) is in flight at any time.
C23_OneManifestWrite ==
  Cardinality({u \in uploads : u.pc = "update"}) + BagCardinality(endings) <= 1

\* C28: between events, a non-empty uploadQueue has an upload in flight
\* (isUploading is set, and it is set exactly while a processUploadQueue call
\* is between its dequeue and its finally); and when every storage call
\* returns, every queued chunk is eventually dequeued and the queue
\* eventually becomes empty.
C28_QueueNeverStranded ==
  /\ [](uploadQueue # <<>> => isUploading)
  /\ [](isUploading <=> uploads # {})
  /\ \A b \in 1 .. MaxChunks :
       (\E i \in 1 .. Len(uploadQueue) : uploadQueue[i] = b)
         ~> (\A i \in 1 .. Len(uploadQueue) : uploadQueue[i] # b)
  /\ (uploadQueue # <<>>) ~> (uploadQueue = <<>>)

\* C28 witness: two chunks wait in the queue behind the one in flight.
C28_Witness ==
  /\ Len(uploadQueue) = 2
  /\ isUploading
  /\ Cardinality(uploads) = 1

\* ------------------------------------------- properties: player, part 4
\* C21: a poll callback whose manifest fetch fails leaves the cached manifest,
\* lastProcessedChunkIndex, pendingChunks and the poll timer as they are; and
\* a poll callback that, after such a failure, reads a manifest that grew
\* beyond the cached one goes on with exactly the chunks beyond
\* lastProcessedChunkIndex, the first of which it fetches.
C21_StalledPollRecovers ==
  [][\A l \in BagToSet(loaders) :
       /\ PollManifestFailed(l)
            => UNCHANGED <<playerManifest, lastProcessedChunkIndex,
                           pendingChunks, pollingInterval>>
       /\ (/\ PollManifestLoaded(l)
           /\ pollFailedAt >= 0
           /\ stored.chunkCount > playerManifest.chunkCount
           /\ ~NoNewSegment(lastProcessedChunkIndex))
            => \E k \in BagToSet(loaders') :
                 /\ k.kind = "tick" /\ k.pc = "fetch"
                 /\ \A i \in 1 .. Len(stored.chunks) :
                      stored.chunks[i].index > lastProcessedChunkIndex
                        => \E j \in 1 .. Len(k.todo) :
                             k.todo[j] = stored.chunks[i].index]_vars

\* C21 witness: a manifest fetch of a poll failed, the timer is still armed,
\* and a chunk that the manifest cached at that time did not hold has reached
\* the sink: a poll that read the manifest after the failure delivered it.
C21_Witness ==
  /\ pollFailedAt >= 0
  /\ pollingInterval
  /\ failedFetch = {}
  /\ \E i \in Appended : i >= pollFailedAt

\* C24: StreamPlayer has at most one append outstanding.  While the
\* SourceBuffer is updating, isBufferUpdating is set, so that
\* processNextPendingChunk returns before it reaches appendBuffer; a step
\* hands at most one payload to the sink, and while an append is outstanding
\* only the updateend handler does so.
C24_OneAppendOutstanding ==
  [][/\ updating => isBufferUpdating
     /\ updating' => isBufferUpdating'
     /\ Len(appended') <= Len(appended) + 1
     /\ (updating /\ appended' # appended)
          => \E throws \in 0 .. MaxThrows : UpdateEnd(throws)]_vars

\* C24 witness: after an updateend that issued the next payload, that append
\* is outstanding while a further payload waits in pendingChunks.
C24_Witness ==
  /\ updating
  /\ Len(appended) >= 2
  /\ pendingChunks # <<>>

\* C25: lastProcessedChunkIndex names a segment only once the sink has
\* completed the append of that segment: the segment was handed to
\* appendBuffer without a throw and its updateend has arrived.
C25_AdvancedAfterAppend ==
  \/ lastProcessedChunkIndex = -1
  \/ \E k \in 1 .. Len(appended) :
       /\ appended[k] = lastProcessedChunkIndex
       /\ (k < Len(appended) \/ ~updating)

\* C26: a poll callback whose manifest fetch and segment fetches all succeed
\* ends with lastProcessedChunkIndex equal to the highest chunk index of the
\* manifest it read.  A callback ends in the step that removes its loader
\* without a replacement; here it is the only loop running (the bootstrap
\* load and every other callback are over) and no fetch has failed so far.
C26_PollDeltaByIndex ==
  [][\A l \in BagToSet(loaders) :
       (/\ l.kind = "tick"
        /\ PollManifestLoaded(l) \/ \E throws \in 0 .. MaxThrows : FetchOk(l, throws)
        /\ BagCardinality(loaders) = 1
        /\ BagCardinality(loaders') = 0
        /\ failedFetch = {}
        /\ pollFailedAt = -1)
         => LET read == IF l.pc = "manifest" THEN stored ELSE l.latest
            IN \A i \in 1 .. Len(read.chunks) :
                 read.chunks[i].index <= lastProcessedChunkIndex']_vars

\* C27: no segment index is handed to appendBuffer twice, by StreamPlayer or
\* by the space page's poller: the sequence of appended segments has no
\* repetition.
C27_NoSegmentTwice ==
  \A j, k \in 1 .. Len(appended) : appended[j] = appended[k] => j = k

\* C29: once the SourceBuffer exists, a non-empty pendingChunks between
\* events has an append in progress (isBufferUpdating is set); the flag is
\* set only while the SourceBuffer is updating; and when every append
\* signals updateend, a non-empty pendingChunks is eventually emptied, each
\* payload having been passed to appendBuffer.
C29_PendingNeverStranded ==
  /\ []((sourceBuffer /\ pendingChunks # <<>>) => isBufferUpdating)
  /\ [](isBufferUpdating => updating)
  /\ (pendingChunks # <<>>) ~> (pendingChunks = <<>>)

\* C29 witness: two fetched payloads wait in pendingChunks while an append
\* is in progress.
C29_Witness ==
  /\ sourceBuffer
  /\ Len(pendingChunks) >= 2
  /\ isBufferUpdating

\* C30: the last-applied index of a consumer never decreases: no step lowers
\* lastProcessedChunkIndex of StreamPlayer or lastChunkIndexRef of the space
\* page's poller; both start at -1.
C30_LastIndexMonotone ==
  [][/\ lastProcessedChunkIndex' >= lastProcessedChunkIndex
     /\ lastChunkIndexRef' >= lastChunkIndexRef]_vars

====
